---- MODULE Spec2Model ----
(***************************************************************************)
(* A model of rpfm_lib's PackedFile (packfile/packedfile.rs) and of the    *)
(* decode/encode dispatcher of DecodedPackedFile (packedfile/mod.rs).      *)
(*                                                                         *)
(* Two PackedFiles, e1 and e2, come from one PackFile and share its        *)
(* Arc<Mutex<BufReader<File>>>.  Two threads call the methods.  A method   *)
(* that reads the file takes the Mutex once for the seek and once more for *)
(* the read_exact, so each of the two is one atomic step of a thread and   *)
(* other threads may run between them.  Rust's borrow rules are part of    *)
(* the model: a `&mut self` method needs the PackedFile for itself, `&self`*)
(* methods may share it.                                                   *)
(***************************************************************************)
EXTENDS Integers, Sequences, FiniteSets, TLC

VARIABLES file, fileLock, pos, entry, held, lastTake, thread, schema, schemaLock, ops

vars == <<file, fileLock, pos, entry, held, lastTake, thread, schema, schemaLock, ops>>

\* The number of method calls a behaviour starts.
MaxOps == 3

\* A byte of a Vec<u8>.
ByteMod == 256

Threads == {"t1", "t2"}
Entries == {"e1", "e2"}

None == "None"
PFHVersions == {"PFH5"}

\* The plaintext of each PackedFile of the model.
PlainOf(e) == IF e = "e1" THEN <<7, 8>> ELSE <<4>>

(***************************************************************************)
(* The transforms.  decrypt_packed_file and decompress_data live in        *)
(* crate::packfile; the model gives them the contract the callers rely on: *)
(* decrypt is total, decompress fails on a malformed stream.  A compressed *)
(* stream is its payload behind a one-byte length header.                  *)
(***************************************************************************)
Encrypt(b) == [i \in 1..Len(b) |-> (b[i] + 1) % ByteMod]

Decrypt(b) == [i \in 1..Len(b) |-> (b[i] + ByteMod - 1) % ByteMod]

Compress(b) == <<Len(b)>> \o b

WellFormed(b) == Len(b) >= 1 /\ b[1] = Len(b) - 1

Decompress(b) ==
    IF WellFormed(b) THEN [ok |-> TRUE, bytes |-> Tail(b)]
    ELSE [ok |-> FALSE, bytes |-> <<>>]

\* A stream with a wrong length header: decompress_data rejects it.
Malformed(b) == <<Len(b) + 1>> \o b

(***************************************************************************)
(* PackedFileData.  Both variants are records of one shape; the fields a   *)
(* variant does not have are zero.  There is one file handle, so the       *)
(* OnDisk variant's reader is the variables file and pos.                  *)
(***************************************************************************)
OnMemory(data, is_compressed, is_encrypted) ==
    [tag |-> "OnMemory", bytes |-> data, position |-> 0, size |-> 0,
     is_compressed |-> is_compressed, is_encrypted |-> is_encrypted]

OnDisk(position, size, is_compressed, is_encrypted) ==
    [tag |-> "OnDisk", bytes |-> <<>>, position |-> position, size |-> size,
     is_compressed |-> is_compressed, is_encrypted |-> is_encrypted]

PackedFile(path, packfile_name, timestamp, should_be_compressed, should_be_encrypted, data) ==
    [path |-> path, packfile_name |-> packfile_name, timestamp |-> timestamp,
     should_be_compressed |-> should_be_compressed,
     should_be_encrypted |-> should_be_encrypted, data |-> data]

\* The bytes a PackFile stores for a PackedFile: compressed, then encrypted.
Stored(plain, comp, enc, wf) ==
    LET c == IF comp THEN (IF wf THEN Compress(plain) ELSE Malformed(plain)) ELSE plain
    IN  IF enc # None THEN Encrypt(c) ELSE c

\* BufReader<File>::seek(SeekFrom::Start(position)) under the Mutex.
Seek(position, fails) ==
    IF fails THEN [ok |-> FALSE, pos |-> pos]
    ELSE [ok |-> TRUE, pos |-> position]

\* BufReader<File>::read_exact(&mut data) under the Mutex, data.len() = size.
ReadExact(size, fails) ==
    IF fails THEN [ok |-> FALSE, bytes |-> <<>>, pos |-> pos]
    ELSE IF pos + size > Len(file)
         THEN [ok |-> FALSE, bytes |-> <<>>, pos |-> IF pos > Len(file) THEN pos ELSE Len(file)]
         ELSE [ok |-> TRUE, bytes |-> SubSeq(file, pos + 1, pos + size), pos |-> pos + size]

(***************************************************************************)
(* Paths.  A path is a sequence of segments and a segment a sequence of    *)
(* tokens: a stem, then the dot-led pieces of its extension, so that       *)
(* str::ends_with is a suffix test on the tokens.                          *)
(***************************************************************************)
Paths == { <<>>,
           << <<"db">> >>,
           << <<"db">>, <<"tbl">>, <<"data">> >>,
           << <<"text">>, <<"f", ".loc">> >>,
           << <<"ui">>, <<"f", ".png">> >>,
           << <<"script">>, <<"f", ".lua">> >>,
           << <<"model">>, <<"f", ".rigid_model_v2">> >>,
           << <<"x">>, <<"f", ".bin">> >> }

\* What set_path is given.
NewPaths == { <<>>, << <<"x">>, <<"f", ".bin">> >> }

PackFileNames == {"b.pack"}
Timestamps == {1}

\* What set_data is given: new plaintext.
NewData == { <<5>>, <<1, 6>> }

(***************************************************************************)
(* A thread's call: where it is (pc), the method (op), the PackedFile (e), *)
(* the PackedFile as it was when the call began (pre), the Result          *)
(* (status, value), the transforms the call has run (log), the read_exact  *)
(* calls it has made (reads), and what the last get_data_and_keep_it on    *)
(* the PackedFile had returned when the call began (prev).  arg is what    *)
(* the call was given, or the bytes its read_exact gave it.                *)
(***************************************************************************)
NoData == OnMemory(<<>>, FALSE, None)

NoEntry == PackedFile(<<>>, "", 0, FALSE, None, NoData)

NoTake == [some |-> FALSE, bytes |-> <<>>, log |-> <<>>]

NoValue == [variant |-> "none", decoder |-> "none", bytes |-> <<>>, name |-> <<>>, schema |-> None]

NoGot == [status |-> "none", value |-> <<>>, log |-> <<>>]

NoPlan ==
    [act |-> "none", status |-> "none", value |-> NoValue, decoder |-> "none",
     variant |-> "none", name |-> <<>>, schema |-> None, locks |-> FALSE]

Idle ==
    [pc |-> "idle", op |-> "none", e |-> "none", arg |-> <<>>, pre |-> NoEntry,
     status |-> "none", value |-> <<>>, log |-> <<>>, reads |-> 0,
     prev |-> NoTake, decoded |-> NoValue, input |-> NoValue, given |-> None,
     plan |-> NoPlan, got |-> NoGot]

Begun(op, e) ==
    [Idle EXCEPT !.op = op, !.e = e, !.pre = entry[e], !.prev = lastTake[e]]

Done(call, status, value) ==
    [call EXCEPT !.pc = "done", !.status = status, !.value = value]

\* The methods that take `&mut self`.
MutOps == {"load_data", "get_data_and_keep_it", "get_data_and_info_from_memory",
           "set_data", "set_path"}

InCall(t) == thread[t].pc \notin {"idle", "panicked"}

\* Rust's borrow rules: `&mut self` excludes every other call on the PackedFile.
CanBorrowMut(e) == \A u \in Threads : InCall(u) => thread[u].e # e

CanBorrow(e) ==
    \A u \in Threads : (InCall(u) /\ thread[u].e = e) => thread[u].op \notin MutOps

CanBegin(t) == thread[t].pc = "idle" /\ ops < MaxOps

(***************************************************************************)
(* load_data                                                               *)
(***************************************************************************)
\* load_data storing its buffer whether or not read_exact filled it.
load_data_partial(d, r) == OnMemory(r.bytes, d.is_compressed, d.is_encrypted)

\* load_data taking what it read for plaintext.
load_data_plain(d, r) == IF r.ok THEN OnMemory(r.bytes, FALSE, None) ELSE d

\* The PackedFile's data after read_exact has returned r: the `?` leaves
\* before line 133 when it failed.
load_data(d, r) ==
    IF r.ok THEN OnMemory(r.bytes, d.is_compressed, d.is_encrypted) ELSE d

LoadDataBegin(t, e) ==
    /\ CanBegin(t)
    /\ CanBorrowMut(e)
    /\ ops' = ops + 1
    /\ LET d == entry[e].data
           call == Begun("load_data", e)
       IN  IF d.tag = "OnDisk"
           THEN \E fails \in BOOLEAN :
                  LET s == Seek(d.position, fails)
                  IN  /\ pos' = s.pos
                      /\ thread' = [thread EXCEPT ![t] =
                            IF s.ok THEN [call EXCEPT !.pc = "seeked"]
                            ELSE Done(call, "IOError", <<>>)]
           ELSE /\ thread' = [thread EXCEPT ![t] = Done(call, "Ok", <<>>)]
                /\ pos' = pos
    /\ UNCHANGED <<file, fileLock, entry, held, lastTake, schema, schemaLock>>

LoadDataRead(t) ==
    /\ thread[t].pc = "seeked"
    /\ thread[t].op = "load_data"
    /\ \E fails \in BOOLEAN :
         LET e == thread[t].e
             d == entry[e].data
             r == ReadExact(d.size, fails)
             call == [thread[t] EXCEPT !.reads = @ + 1, !.arg = r.bytes]
         IN  /\ pos' = r.pos
             /\ entry' = [entry EXCEPT ![e].data = load_data(d, r)]
             /\ thread' = [thread EXCEPT ![t] =
                   Done(call, IF r.ok THEN "Ok" ELSE "IOError", <<>>)]
    /\ UNCHANGED <<file, fileLock, held, lastTake, schema, schemaLock, ops>>

(***************************************************************************)
(* get_data                                                                *)
(***************************************************************************)
\* The OnMemory arm: decrypt if is_encrypted, then decompress if
\* is_compressed.  The log lists the transforms run, in the order run.
get_data_on_memory(d) ==
    LET d1 == IF d.is_encrypted # None THEN Decrypt(d.bytes) ELSE d.bytes
        l1 == IF d.is_encrypted # None THEN <<"decrypt">> ELSE <<>>
    IN  IF d.is_compressed
        THEN LET r == Decompress(d1)
             IN  IF r.ok
                 THEN [status |-> "Ok", value |-> r.bytes, log |-> l1 \o <<"decompress">>]
                 ELSE [status |-> "DecompressionFailed", value |-> <<>>,
                       log |-> l1 \o <<"decompress">>]
        ELSE [status |-> "Ok", value |-> d1, log |-> l1]

\* The OnDisk arm with the two transforms in the other order.
get_data_on_disk_decompress_first(d, data) ==
    LET r == IF d.is_compressed THEN Decompress(data) ELSE [ok |-> TRUE, bytes |-> data]
        l1 == IF d.is_compressed THEN <<"decompress">> ELSE <<>>
    IN  IF ~r.ok THEN [status |-> "DecompressionFailed", value |-> <<>>, log |-> l1]
        ELSE IF d.is_encrypted # None
        THEN [status |-> "Ok", value |-> Decrypt(r.bytes), log |-> l1 \o <<"decrypt">>]
        ELSE [status |-> "Ok", value |-> r.bytes, log |-> l1]

\* The OnDisk arm, once read_exact has filled data.
get_data_on_disk(d, data) ==
    LET d1 == IF d.is_encrypted # None THEN Decrypt(data) ELSE data
        l1 == IF d.is_encrypted # None THEN <<"decrypt">> ELSE <<>>
    IN  IF d.is_compressed
        THEN LET r == Decompress(d1)
             IN  IF r.ok
                 THEN [status |-> "Ok", value |-> r.bytes, log |-> l1 \o <<"decompress">>]
                 ELSE [status |-> "DecompressionFailed", value |-> <<>>,
                       log |-> l1 \o <<"decompress">>]
        ELSE [status |-> "Ok", value |-> d1, log |-> l1]

GetDataBegin(t, e) ==
    /\ CanBegin(t)
    /\ CanBorrow(e)
    /\ ops' = ops + 1
    /\ LET d == entry[e].data
           call == Begun("get_data", e)
       IN  IF d.tag = "OnDisk"
           THEN \E fails \in BOOLEAN :
                  LET s == Seek(d.position, fails)
                  IN  /\ pos' = s.pos
                      /\ thread' = [thread EXCEPT ![t] =
                            IF s.ok THEN [call EXCEPT !.pc = "seeked"]
                            ELSE Done(call, "IOError", <<>>)]
           ELSE LET r == get_data_on_memory(d)
                IN  /\ thread' = [thread EXCEPT ![t] =
                          Done([call EXCEPT !.log = r.log], r.status, r.value)]
                    /\ pos' = pos
    /\ UNCHANGED <<file, fileLock, entry, held, lastTake, schema, schemaLock>>

\* get_data keeping what it read, as get_data_and_keep_it does.
GetDataRead_keeps(t) ==
    /\ thread[t].pc = "seeked"
    /\ thread[t].op = "get_data"
    /\ \E fails \in BOOLEAN :
         LET e == thread[t].e
             d == entry[e].data
             r == ReadExact(d.size, fails)
             call == [thread[t] EXCEPT !.reads = @ + 1, !.arg = r.bytes]
         IN  /\ pos' = r.pos
             /\ IF r.ok
                THEN LET g == get_data_on_disk(d, r.bytes)
                     IN  /\ thread' = [thread EXCEPT ![t] =
                               Done([call EXCEPT !.log = g.log], g.status, g.value)]
                         /\ entry' = [entry EXCEPT ![e].data =
                               IF g.status = "Ok" THEN OnMemory(g.value, FALSE, None) ELSE @]
                ELSE /\ thread' = [thread EXCEPT ![t] = Done(call, "IOError", <<>>)]
                     /\ entry' = entry
    /\ UNCHANGED <<file, fileLock, held, lastTake, schema, schemaLock, ops>>

GetDataRead(t) ==
    /\ thread[t].pc = "seeked"
    /\ thread[t].op = "get_data"
    /\ \E fails \in BOOLEAN :
         LET d == entry[thread[t].e].data
             r == ReadExact(d.size, fails)
             call == [thread[t] EXCEPT !.reads = @ + 1, !.arg = r.bytes]
         IN  /\ pos' = r.pos
             /\ IF r.ok
                THEN LET g == get_data_on_disk(d, r.bytes)
                     IN  thread' = [thread EXCEPT ![t] =
                            Done([call EXCEPT !.log = g.log], g.status, g.value)]
                ELSE thread' = [thread EXCEPT ![t] = Done(call, "IOError", <<>>)]
    /\ UNCHANGED <<file, fileLock, entry, held, lastTake, schema, schemaLock, ops>>

(***************************************************************************)
(* get_data_and_keep_it                                                    *)
(***************************************************************************)
\* The OnMemory arm without lines 167-168: the flags are left as they were.
get_data_and_keep_it_on_memory_keeps_flags(d) ==
    LET g == get_data_on_memory(d)
    IN  [status |-> g.status, value |-> g.value, log |-> g.log,
         data |-> OnMemory(IF g.status = "Ok" THEN g.value ELSE d.bytes,
                           d.is_compressed, d.is_encrypted)]

\* The OnMemory arm works in place on the PackedFile's own data: the
\* decrypted bytes are stored before decompress_data is tried, and the two
\* flags are cleared only after it has succeeded.
get_data_and_keep_it_on_memory(d) ==
    LET d1 == IF d.is_encrypted # None THEN Decrypt(d.bytes) ELSE d.bytes
        l1 == IF d.is_encrypted # None THEN <<"decrypt">> ELSE <<>>
    IN  IF d.is_compressed
        THEN LET r == Decompress(d1)
             IN  IF r.ok
                 THEN [status |-> "Ok", value |-> r.bytes, log |-> l1 \o <<"decompress">>,
                       data |-> OnMemory(r.bytes, FALSE, None)]
                 ELSE [status |-> "DecompressionFailed", value |-> <<>>,
                       log |-> l1 \o <<"decompress">>,
                       data |-> OnMemory(d1, d.is_compressed, d.is_encrypted)]
        ELSE [status |-> "Ok", value |-> d1, log |-> l1, data |-> OnMemory(d1, FALSE, None)]

\* The OnDisk arm with the two transforms in the other order.
get_data_and_keep_it_on_disk_decompress_first(d, data) ==
    LET g == get_data_on_disk_decompress_first(d, data)
    IN  [status |-> g.status, value |-> g.value, log |-> g.log,
         data |-> IF g.status = "Ok" THEN OnMemory(g.value, FALSE, None) ELSE d]

\* The OnDisk arm works on a local buffer and stores it at the end (line 181).
get_data_and_keep_it_on_disk(d, data) ==
    LET d1 == IF d.is_encrypted # None THEN Decrypt(data) ELSE data
        l1 == IF d.is_encrypted # None THEN <<"decrypt">> ELSE <<>>
    IN  IF d.is_compressed
        THEN LET r == Decompress(d1)
             IN  IF r.ok
                 THEN [status |-> "Ok", value |-> r.bytes, log |-> l1 \o <<"decompress">>,
                       data |-> OnMemory(r.bytes, FALSE, None)]
                 ELSE [status |-> "DecompressionFailed", value |-> <<>>,
                       log |-> l1 \o <<"decompress">>, data |-> d]
        ELSE [status |-> "Ok", value |-> d1, log |-> l1, data |-> OnMemory(d1, FALSE, None)]

\* The transforms still on the bytes a call has stored back: those that were
\* on its input and that the call did not undo.
StillOn(h, r) ==
    [enc  |-> h.enc /\ ~(\E i \in 1..Len(r.log) : r.log[i] = "decrypt"),
     comp |-> h.comp /\ ~(r.status = "Ok" /\ \E i \in 1..Len(r.log) : r.log[i] = "decompress")]

Taken(r) ==
    IF r.status = "Ok" THEN [some |-> TRUE, bytes |-> r.value, log |-> r.log] ELSE NoTake

KeepItBegin(t, e) ==
    /\ CanBegin(t)
    /\ CanBorrowMut(e)
    /\ ops' = ops + 1
    /\ LET d == entry[e].data
           call == Begun("get_data_and_keep_it", e)
       IN  IF d.tag = "OnDisk"
           THEN \E fails \in BOOLEAN :
                  LET s == Seek(d.position, fails)
                  IN  /\ pos' = s.pos
                      /\ thread' = [thread EXCEPT ![t] =
                            IF s.ok THEN [call EXCEPT !.pc = "seeked"]
                            ELSE Done(call, "IOError", <<>>)]
                      /\ UNCHANGED <<entry, held, lastTake>>
           ELSE LET r == get_data_and_keep_it_on_memory(d)
                IN  /\ entry' = [entry EXCEPT ![e].data = r.data]
                    /\ held' = [held EXCEPT ![e] = StillOn(@, r)]
                    /\ lastTake' = [lastTake EXCEPT ![e] = Taken(r)]
                    /\ thread' = [thread EXCEPT ![t] =
                          Done([call EXCEPT !.log = r.log], r.status, r.value)]
                    /\ pos' = pos
    /\ UNCHANGED <<file, fileLock, schema, schemaLock>>

KeepItRead(t) ==
    /\ thread[t].pc = "seeked"
    /\ thread[t].op = "get_data_and_keep_it"
    /\ \E fails \in BOOLEAN :
         LET e == thread[t].e
             d == entry[e].data
             r == ReadExact(d.size, fails)
             call == [thread[t] EXCEPT !.reads = @ + 1, !.arg = r.bytes]
         IN  /\ pos' = r.pos
             /\ IF r.ok
                THEN LET g == get_data_and_keep_it_on_disk(d, r.bytes)
                     IN  /\ entry' = [entry EXCEPT ![e].data = g.data]
                         /\ held' = [held EXCEPT ![e] =
                               IF g.status = "Ok" THEN StillOn(@, g) ELSE @]
                         /\ lastTake' = [lastTake EXCEPT ![e] = Taken(g)]
                         /\ thread' = [thread EXCEPT ![t] =
                               Done([call EXCEPT !.log = g.log], g.status, g.value)]
                ELSE /\ thread' = [thread EXCEPT ![t] = Done(call, "IOError", <<>>)]
                     /\ UNCHANGED <<entry, held, lastTake>>
    /\ UNCHANGED <<file, fileLock, schema, schemaLock, ops>>

(***************************************************************************)
(* get_data_and_info_from_memory, set_data, set_path and the setters       *)
(***************************************************************************)
\* get_data_and_info_from_memory handing out the data wherever it is.
get_data_and_info_from_memory_anywhere(d) == "Ok"

get_data_and_info_from_memory(d) ==
    IF d.tag = "OnMemory" THEN "Ok" ELSE "PackedFileDataIsNotInMemory"

GetDataAndInfoFromMemory(t, e) ==
    /\ CanBegin(t)
    /\ CanBorrowMut(e)
    /\ ops' = ops + 1
    /\ thread' = [thread EXCEPT ![t] =
          Done(Begun("get_data_and_info_from_memory", e),
               get_data_and_info_from_memory(entry[e].data), <<>>)]
    /\ UNCHANGED <<file, fileLock, pos, entry, held, lastTake, schema, schemaLock>>

\* set_data handing the bytes back to the file instead of keeping them.
set_data_on_disk(data) == OnDisk(0, Len(data), FALSE, None)

\* set_data marking the new bytes as compressed.
set_data_compressed(data) == OnMemory(data, TRUE, None)

set_data(data) == OnMemory(data, FALSE, None)

SetData(t, e) ==
    /\ CanBegin(t)
    /\ CanBorrowMut(e)
    /\ ops' = ops + 1
    /\ \E data \in NewData :
         /\ entry' = [entry EXCEPT ![e].data = set_data(data)]
         /\ thread' = [thread EXCEPT ![t] =
               Done([Begun("set_data", e) EXCEPT !.arg = data], "Ok", <<>>)]
    /\ held' = [held EXCEPT ![e] = [enc |-> FALSE, comp |-> FALSE]]
    /\ lastTake' = [lastTake EXCEPT ![e] = NoTake]
    /\ UNCHANGED <<file, fileLock, pos, schema, schemaLock>>

\* set_path without the check for an empty path.
set_path_unchecked(old, path) == [status |-> "Ok", path |-> path]

set_path(old, path) ==
    IF path = <<>> THEN [status |-> "EmptyInput", path |-> old]
    ELSE [status |-> "Ok", path |-> path]

SetPath(t, e) ==
    /\ CanBegin(t)
    /\ CanBorrowMut(e)
    /\ ops' = ops + 1
    /\ \E path \in NewPaths :
         LET r == set_path(entry[e].path, path)
         IN  /\ entry' = [entry EXCEPT ![e].path = r.path]
             /\ thread' = [thread EXCEPT ![t] =
                   Done([Begun("set_path", e) EXCEPT !.arg = path], r.status, <<>>)]
    /\ UNCHANGED <<file, fileLock, pos, held, lastTake, schema, schemaLock>>

\* set_should_be_compressed changing is_compressed of the data along with it.
SetShouldBeCompressed_and_data(e) ==
    /\ ops < MaxOps
    /\ CanBorrowMut(e)
    /\ ops' = ops + 1
    /\ \E state \in BOOLEAN :
         entry' = [entry EXCEPT ![e].should_be_compressed = state,
                                ![e].data.is_compressed = state]
    /\ UNCHANGED <<file, fileLock, pos, held, lastTake, thread, schema, schemaLock>>

SetShouldBeCompressed(e) ==
    /\ ops < MaxOps
    /\ CanBorrowMut(e)
    /\ ops' = ops + 1
    /\ \E state \in BOOLEAN : entry' = [entry EXCEPT ![e].should_be_compressed = state]
    /\ UNCHANGED <<file, fileLock, pos, held, lastTake, thread, schema, schemaLock>>

SetShouldBeEncrypted(e) ==
    /\ ops < MaxOps
    /\ CanBorrowMut(e)
    /\ ops' = ops + 1
    /\ \E state \in PFHVersions \cup {None} :
         entry' = [entry EXCEPT ![e].should_be_encrypted = state]
    /\ UNCHANGED <<file, fileLock, pos, held, lastTake, thread, schema, schemaLock>>

SetPackfileName(e) ==
    /\ ops < MaxOps
    /\ CanBorrowMut(e)
    /\ ops' = ops + 1
    /\ \E name \in PackFileNames : entry' = [entry EXCEPT ![e].packfile_name = name]
    /\ UNCHANGED <<file, fileLock, pos, held, lastTake, thread, schema, schemaLock>>

SetTimestamp(e) ==
    /\ ops < MaxOps
    /\ CanBorrowMut(e)
    /\ ops' = ops + 1
    /\ \E timestamp \in Timestamps : entry' = [entry EXCEPT ![e].timestamp = timestamp]
    /\ UNCHANGED <<file, fileLock, pos, held, lastTake, thread, schema, schemaLock>>

\* The caller has its Result and lets go of the PackedFile.
Return(t) ==
    /\ thread[t].pc = "done"
    /\ thread' = [thread EXCEPT ![t] = Idle]
    /\ UNCHANGED <<file, fileLock, pos, entry, held, lastTake, schema, schemaLock, ops>>

(***************************************************************************)
(* PackedFileType::get_packed_file_type                                    *)
(***************************************************************************)
EndsWith(segment, ext) ==
    /\ Len(segment) >= Len(ext)
    /\ SubSeq(segment, Len(segment) - Len(ext) + 1, Len(segment)) = ext

TextExtensions ==
    { <<".lua">>, <<".xml">>, <<".xml", ".shader">>, <<".xml", ".material">>,
      <<".variantmeshdefinition">>, <<".environment">>, <<".lighting">>, <<".wsmodel">>,
      <<".csv">>, <<".tsv">>, <<".inl">>, <<".battle_speech_camera">>, <<".bob">>,
      <<".cindyscene">>, <<".cindyscenemanager">>, <<".txt">> }

ImageExtensions == { <<".jpg">>, <<".jpeg">>, <<".tga">>, <<".dds">>, <<".png">> }

\* The classifier looking at the name's extension before the first segment.
get_packed_file_type_extension_first(path) ==
    IF path = <<>> THEN "Unknown"
    ELSE LET packedfile_name == path[Len(path)]
         IN  IF EndsWith(packedfile_name, <<".loc">>) THEN "Loc"
             ELSE IF path[1] = <<"db">> THEN "DB"
             ELSE IF EndsWith(packedfile_name, <<".rigid_model_v2">>) THEN "RigidModel"
             ELSE IF \E x \in TextExtensions : EndsWith(packedfile_name, x) THEN "Text"
             ELSE IF \E x \in ImageExtensions : EndsWith(packedfile_name, x) THEN "Image"
             ELSE "Unknown"

get_packed_file_type(path) ==
    IF path = <<>> THEN "Unknown"
    ELSE LET packedfile_name == path[Len(path)]
         IN  IF path[1] = <<"db">> THEN "DB"
             ELSE IF EndsWith(packedfile_name, <<".loc">>) THEN "Loc"
             ELSE IF EndsWith(packedfile_name, <<".rigid_model_v2">>) THEN "RigidModel"
             ELSE IF \E x \in TextExtensions : EndsWith(packedfile_name, x) THEN "Text"
             ELSE IF \E x \in ImageExtensions : EndsWith(packedfile_name, x) THEN "Image"
             ELSE "Unknown"

(***************************************************************************)
(* DecodedPackedFile::decode and decode_no_locks.  What a call does before *)
(* it reads the PackedFile's data is its plan: return at once, or get the  *)
(* data and hand it to a decoder.  `locks` says the plan holds the SCHEMA  *)
(* Mutex, which decode takes for DB and Loc and keeps until it returns.    *)
(***************************************************************************)
Schemas == {"S"}

Variants == {"Anim", "AnimFragment", "AnimPack", "AnimTable", "CEO", "DB", "Image", "Loc",
             "MatchedCombat", "RigidModel", "StarPos", "Text", "Unknown"}

Value(variant, decoder, bytes, name, sch) ==
    [variant |-> variant, decoder |-> decoder, bytes |-> bytes, name |-> name, schema |-> sch]

Unknown == Value("Unknown", "none", <<>>, <<>>, None)

ReturnNow(status, value, locks) ==
    [act |-> "return", status |-> status, value |-> value, decoder |-> "none",
     variant |-> "none", name |-> <<>>, schema |-> None, locks |-> locks]

ReadThen(decoder, variant, name, sch, locks) ==
    [act |-> "read", status |-> "none", value |-> NoValue, decoder |-> decoder,
     variant |-> variant, name |-> name, schema |-> sch, locks |-> locks]

\* decode getting the data of a PackedFile it has no decoder for.
decode_reads_unknown(path, sch) ==
    LET type == get_packed_file_type(path)
    IN  IF type = "DB"
        THEN IF sch # None
             THEN IF Len(path) < 2
                  THEN ReturnNow("DBTableIsNotADBTable", NoValue, TRUE)
                  ELSE ReadThen("DB::read", "DB", path[2], sch, TRUE)
             ELSE ReturnNow("Ok", Unknown, TRUE)
        ELSE IF type = "Image" THEN ReadThen("Image::read", "Image", <<>>, None, FALSE)
        ELSE IF type = "Loc"
        THEN IF sch # None
             THEN ReadThen("Loc::read", "Loc", <<>>, sch, TRUE)
             ELSE ReturnNow("Ok", Unknown, TRUE)
        ELSE IF type = "Text" THEN ReadThen("Text::read", "Text", <<>>, None, FALSE)
        ELSE ReadThen("none", "Unknown", <<>>, None, FALSE)

\* decode looking for the table's name before it looks at the schema.
decode_name_first(path, sch) ==
    LET type == get_packed_file_type(path)
    IN  IF type = "DB"
        THEN IF Len(path) < 2
             THEN ReturnNow("DBTableIsNotADBTable", NoValue, TRUE)
             ELSE IF sch # None THEN ReadThen("DB::read", "DB", path[2], sch, TRUE)
             ELSE ReturnNow("Ok", Unknown, TRUE)
        ELSE IF type = "Image" THEN ReadThen("Image::read", "Image", <<>>, None, FALSE)
        ELSE IF type = "Loc"
        THEN IF sch # None
             THEN ReadThen("Loc::read", "Loc", <<>>, sch, TRUE)
             ELSE ReturnNow("Ok", Unknown, TRUE)
        ELSE IF type = "Text" THEN ReadThen("Text::read", "Text", <<>>, None, FALSE)
        ELSE ReturnNow("Ok", Unknown, FALSE)

decode(path, sch) ==
    LET type == get_packed_file_type(path)
    IN  IF type = "DB"
        THEN IF sch # None
             THEN IF Len(path) < 2
                  THEN ReturnNow("DBTableIsNotADBTable", NoValue, TRUE)
                  ELSE ReadThen("DB::read", "DB", path[2], sch, TRUE)
             ELSE ReturnNow("Ok", Unknown, TRUE)
        ELSE IF type = "Image" THEN ReadThen("Image::read", "Image", <<>>, None, FALSE)
        ELSE IF type = "Loc"
        THEN IF sch # None
             THEN ReadThen("Loc::read", "Loc", <<>>, sch, TRUE)
             ELSE ReturnNow("Ok", Unknown, TRUE)
        ELSE IF type = "Text" THEN ReadThen("Text::read", "Text", <<>>, None, FALSE)
        ELSE ReturnNow("Ok", Unknown, FALSE)

\* decode_no_locks getting the data before it looks for the table's name.
decode_no_locks_reads_first(path, sch) ==
    LET type == get_packed_file_type(path)
    IN  IF type = "DB"
        THEN ReadThen("DB::read", "DB", IF Len(path) < 2 THEN <<>> ELSE path[2], sch, FALSE)
        ELSE IF type = "Image" THEN ReadThen("Text::read", "Text", <<>>, None, FALSE)
        ELSE IF type = "Loc" THEN ReadThen("Loc::read", "Loc", <<>>, sch, FALSE)
        ELSE IF type = "Text" THEN ReadThen("Text::read", "Text", <<>>, None, FALSE)
        ELSE ReturnNow("Ok", Unknown, FALSE)

decode_no_locks(path, sch) ==
    LET type == get_packed_file_type(path)
    IN  IF type = "DB"
        THEN IF Len(path) < 2
             THEN ReturnNow("DBTableIsNotADBTable", NoValue, FALSE)
             ELSE ReadThen("DB::read", "DB", path[2], sch, FALSE)
        ELSE IF type = "Image" THEN ReadThen("Text::read", "Text", <<>>, None, FALSE)
        ELSE IF type = "Loc" THEN ReadThen("Loc::read", "Loc", <<>>, sch, FALSE)
        ELSE IF type = "Text" THEN ReadThen("Text::read", "Text", <<>>, None, FALSE)
        ELSE ReturnNow("Ok", Unknown, FALSE)

\* The decoders (DB::read, Loc::read, Text::read, Image::read) are the
\* submodules' own: each fails on bytes it cannot parse, here those that
\* start with an odd byte, and else keeps what it was given.
Decodable(data) == Len(data) >= 1 /\ data[1] % 2 = 0

Read(plan, data) ==
    IF Decodable(data)
    THEN [status |-> "Ok",
          value |-> Value(plan.variant, plan.decoder, data, plan.name, plan.schema)]
    ELSE [status |-> "DecodeError",
          value |-> Value("none", plan.decoder, <<>>, <<>>, None)]

\* The rest of a call whose plan is to read: `data?`, then the decoder.
Decoded(plan, g) ==
    IF g.status = "Ok" THEN Read(plan, g.value)
    ELSE [status |-> g.status, value |-> NoValue]

\* A decode or decode_no_locks call as it begins on PackedFile e with plan p.
DecodeCall(op, e, sch, p) ==
    [Begun(op, e) EXCEPT !.given = sch, !.plan = p]

\* The call after get_data has returned g.
AfterGetData(call, g) ==
    LET r == Decoded(call.plan, g)
    IN  [call EXCEPT !.pc = "done", !.status = r.status, !.decoded = r.value,
                     !.got = g, !.log = g.log]

DecodeStart(t, e, op, sch, p) ==
    LET d == entry[e].data
        call == DecodeCall(op, e, sch, p)
    IN  IF p.act = "return"
        THEN /\ thread' = [thread EXCEPT ![t] =
                   [call EXCEPT !.pc = "done", !.status = p.status, !.decoded = p.value]]
             /\ UNCHANGED <<pos, schemaLock>>
        ELSE IF d.tag = "OnDisk"
        THEN \E fails \in BOOLEAN :
               LET s == Seek(d.position, fails)
               IN  /\ pos' = s.pos
                   /\ IF s.ok
                      THEN /\ thread' = [thread EXCEPT ![t] = [call EXCEPT !.pc = "seeked"]]
                           /\ schemaLock' = IF p.locks THEN t ELSE schemaLock
                      ELSE /\ thread' = [thread EXCEPT ![t] =
                                 AfterGetData(call, [status |-> "IOError", value |-> <<>>,
                                                 log |-> <<>>])]
                           /\ UNCHANGED schemaLock
        ELSE /\ thread' = [thread EXCEPT ![t] = AfterGetData(call, get_data_on_memory(d))]
             /\ UNCHANGED <<pos, schemaLock>>

DecodeBegin(t, e) ==
    /\ CanBegin(t)
    /\ CanBorrow(e)
    /\ LET p == decode(entry[e].path, schema)
       IN  /\ p.locks => schemaLock = None
           /\ DecodeStart(t, e, "decode", schema, p)
    /\ ops' = ops + 1
    /\ UNCHANGED <<file, fileLock, entry, held, lastTake, schema>>

DecodeNoLocksBegin(t, e) ==
    /\ CanBegin(t)
    /\ CanBorrow(e)
    /\ \E sch \in Schemas :
         DecodeStart(t, e, "decode_no_locks", sch, decode_no_locks(entry[e].path, sch))
    /\ ops' = ops + 1
    /\ UNCHANGED <<file, fileLock, entry, held, lastTake, schema>>

\* The read_exact of the get_data inside decode or decode_no_locks, and the
\* rest of the call.
DecodeRead(t) ==
    /\ thread[t].pc = "seeked"
    /\ thread[t].op \in {"decode", "decode_no_locks"}
    /\ \E fails \in BOOLEAN :
         LET d == entry[thread[t].e].data
             r == ReadExact(d.size, fails)
             call == [thread[t] EXCEPT !.reads = @ + 1, !.arg = r.bytes]
         IN  /\ pos' = r.pos
             /\ thread' = [thread EXCEPT ![t] =
                   IF r.ok THEN AfterGetData(call, get_data_on_disk(d, r.bytes))
                   ELSE AfterGetData(call, [status |-> "IOError", value |-> <<>>, log |-> <<>>])]
    /\ schemaLock' = IF schemaLock = t THEN None ELSE schemaLock
    /\ UNCHANGED <<file, fileLock, entry, held, lastTake, schema, ops>>

(***************************************************************************)
(* DecodedPackedFile::encode.  DB, Loc and Text save themselves; every     *)
(* other variant reaches unimplemented!(), which panics: the thread        *)
(* unwinds and the call returns nothing.                                   *)
(***************************************************************************)
\* DB::save, Loc::save and Text::save give back the bytes of the value.
Save(value) == [status |-> "Ok", panics |-> FALSE, value |-> value.bytes]

encode(value) ==
    IF value.variant = "DB" THEN Save(value)
    ELSE IF value.variant = "Image" THEN [status |-> "none", panics |-> TRUE, value |-> <<>>]
    ELSE IF value.variant = "Loc" THEN Save(value)
    ELSE IF value.variant = "Text" THEN Save(value)
    ELSE [status |-> "none", panics |-> TRUE, value |-> <<>>]

\* The values encode is given: one of each variant.
Values ==
    { Value(v, "none",
            IF v \in {"DB", "Image", "Loc", "Text"} THEN <<4>> ELSE <<>>,
            IF v = "DB" THEN <<"tbl">> ELSE <<>>,
            IF v \in {"DB", "Loc"} THEN "S" ELSE None) : v \in Variants }

Encode(t) ==
    /\ CanBegin(t)
    /\ ops' = ops + 1
    /\ \E value \in Values :
         LET r == encode(value)
             call == [Idle EXCEPT !.op = "encode", !.input = value]
         IN  thread' = [thread EXCEPT ![t] =
                IF r.panics THEN [call EXCEPT !.pc = "panicked"]
                ELSE Done(call, r.status, r.value)]
    /\ UNCHANGED <<file, fileLock, pos, entry, held, lastTake, schema, schemaLock>>

(***************************************************************************)
(* The PackFile: the stored bytes of e1, then those of e2.  A PackedFile   *)
(* starts OnDisk over its part of the file, or OnMemory holding the same   *)
(* bytes; its flags say what is on them, as the PackFile's index records.  *)
(***************************************************************************)
Layout == [rep : {"OnDisk", "OnMemory"}, comp : BOOLEAN,
           enc : PFHVersions \cup {None}, wf : BOOLEAN]

Layouts == {l \in Layout : ~l.comp => l.wf}

StoredOf(e, l) == Stored(PlainOf(e), l.comp, l.enc, l.wf)

InitialData(l, bytes, position) ==
    IF l.rep = "OnDisk" THEN OnDisk(position, Len(bytes), l.comp, l.enc)
    ELSE OnMemory(bytes, l.comp, l.enc)

InitPackFile(l1, l2, p1, p2) ==
    LET b1 == StoredOf("e1", l1)
        b2 == StoredOf("e2", l2)
    IN  /\ file = b1 \o b2
        /\ entry = [e \in Entries |->
              IF e = "e1"
              THEN PackedFile(p1, "a.pack", 0, l1.comp, l1.enc, InitialData(l1, b1, 0))
              ELSE PackedFile(p2, "a.pack", 0, l2.comp, l2.enc, InitialData(l2, b2, Len(b1)))]
        /\ held = [e \in Entries |->
              IF e = "e1" THEN [enc |-> l1.enc # None, comp |-> l1.comp]
              ELSE [enc |-> l2.enc # None, comp |-> l2.comp]]
        /\ pos = 0
        /\ lastTake = [e \in Entries |-> NoTake]
        /\ thread = [t \in Threads |-> Idle]
        /\ schemaLock = None
        /\ fileLock = None
        /\ ops = 0

Init ==
    /\ \E l1 \in Layouts :
         InitPackFile(l1, [rep |-> "OnDisk", comp |-> TRUE, enc |-> None, wf |-> TRUE], << <<"db">>, <<"tbl">>, <<"data">> >>,
                              << <<"script">>, <<"f", ".lua">> >>)
    /\ schema = None

Next ==
    \/ \E t \in Threads, e \in Entries : LoadDataBegin(t, e)
    \/ \E t \in Threads : LoadDataRead(t)
    \/ \E t \in Threads, e \in Entries : GetDataBegin(t, e)
    \/ \E t \in Threads : GetDataRead(t)
    \/ \E t \in Threads, e \in Entries : KeepItBegin(t, e)
    \/ \E t \in Threads : KeepItRead(t)
    \/ \E t \in Threads, e \in Entries : GetDataAndInfoFromMemory(t, e)
    \/ \E t \in Threads, e \in Entries : SetData(t, e)
    \/ \E t \in Threads, e \in Entries : SetPath(t, e)
    \/ \E e \in Entries : SetShouldBeCompressed(e)
    \/ \E e \in Entries : SetShouldBeEncrypted(e)
    \/ \E e \in Entries : SetPackfileName(e)
    \/ \E e \in Entries : SetTimestamp(e)
    \/ \E t \in Threads : Return(t)

Spec == Init /\ [][Next]_vars

(***************************************************************************)
(* The locks.  Here a call is followed from one lock() to the next: a      *)
(* thread blocks in SCHEMA.lock() (pc "SCHEMA.lock") or in file.lock(),    *)
(* before the seek (pc "file.lock") or before the read_exact (pc           *)
(* "seeked"), until the Mutex is free; it holds the file's Mutex for the   *)
(* one statement that took it (pc "seek", pc "read_exact") and SCHEMA's    *)
(* from `let schema = SCHEMA.lock().unwrap()` to the end of the match arm. *)
(* What runs between two lock() calls of a thread is local to it and is    *)
(* part of the step that ends at the next lock() or at the return.         *)
(***************************************************************************)
\* decode or decode_no_locks from the point where its plan p is known.
DecodeGo(t, e, call, p) ==
    LET d == entry[e].data
    IN  IF p.act = "return"
        THEN /\ thread' = [thread EXCEPT ![t] =
                   [call EXCEPT !.pc = "done", !.status = p.status, !.decoded = p.value]]
             /\ UNCHANGED schemaLock
        ELSE IF d.tag = "OnMemory"
        THEN /\ thread' = [thread EXCEPT ![t] = AfterGetData(call, get_data_on_memory(d))]
             /\ UNCHANGED schemaLock
        ELSE /\ thread' = [thread EXCEPT ![t] = [call EXCEPT !.pc = "file.lock"]]
             /\ schemaLock' = IF p.locks THEN t ELSE schemaLock

CallDecode(t, e) ==
    /\ CanBegin(t)
    /\ CanBorrow(e)
    /\ ops' = ops + 1
    /\ IF get_packed_file_type(entry[e].path) \in {"DB", "Loc"}
       THEN /\ thread' = [thread EXCEPT ![t] =
                  [Begun("decode", e) EXCEPT !.pc = "SCHEMA.lock"]]
            /\ UNCHANGED schemaLock
       ELSE LET p == decode(entry[e].path, schema)
            IN  DecodeGo(t, e, DecodeCall("decode", e, schema, p), p)
    /\ UNCHANGED <<file, fileLock, pos, entry, held, lastTake, schema>>

CallDecodeNoLocks(t, e) ==
    /\ CanBegin(t)
    /\ CanBorrow(e)
    /\ ops' = ops + 1
    /\ \E sch \in Schemas :
         LET p == decode_no_locks(entry[e].path, sch)
         IN  DecodeGo(t, e, DecodeCall("decode_no_locks", e, sch, p), p)
    /\ UNCHANGED <<file, fileLock, pos, entry, held, lastTake, schema>>

\* SCHEMA.lock() returns: the DB or Loc arm goes on with the schema it finds.
LockSchema(t) ==
    /\ thread[t].pc = "SCHEMA.lock"
    /\ schemaLock = None
    /\ LET e == thread[t].e
           p == decode(entry[e].path, schema)
       IN  DecodeGo(t, e, [thread[t] EXCEPT !.given = schema, !.plan = p], p)
    /\ UNCHANGED <<file, fileLock, pos, entry, held, lastTake, schema, ops>>

\* load_data, get_data or get_data_and_keep_it called on OnDisk data.
CallOnDisk(t, e) ==
    /\ CanBegin(t)
    /\ entry[e].data.tag = "OnDisk"
    /\ ops' = ops + 1
    /\ \E op \in {"load_data", "get_data", "get_data_and_keep_it"} :
         /\ IF op \in MutOps THEN CanBorrowMut(e) ELSE CanBorrow(e)
         /\ thread' = [thread EXCEPT ![t] = [Begun(op, e) EXCEPT !.pc = "file.lock"]]
    /\ UNCHANGED <<file, fileLock, pos, entry, held, lastTake, schema, schemaLock>>

\* file.lock() returns, for the seek or for the read_exact.
LockFile(t) ==
    /\ thread[t].pc \in {"file.lock", "seeked"}
    /\ fileLock = None
    /\ fileLock' = t
    /\ thread' = [thread EXCEPT ![t].pc = IF @ = "file.lock" THEN "seek" ELSE "read_exact"]
    /\ UNCHANGED <<file, pos, entry, held, lastTake, schema, schemaLock, ops>>

\* The call of thread t failing with an io::Error.
IOFailed(t) ==
    IF thread[t].op \in {"decode", "decode_no_locks"}
    THEN AfterGetData(thread[t], [status |-> "IOError", value |-> <<>>, log |-> <<>>])
    ELSE Done(thread[t], "IOError", <<>>)

\* The seek keeping the MutexGuard after the statement.
SeekUnlock_keeps_guard(t) ==
    /\ thread[t].pc = "seek"
    /\ \E fails \in BOOLEAN :
         LET s == Seek(entry[thread[t].e].data.position, fails)
         IN  /\ pos' = s.pos
             /\ thread' = [thread EXCEPT ![t] =
                   IF s.ok THEN [@ EXCEPT !.pc = "seeked"] ELSE IOFailed(t)]
             /\ fileLock' = IF s.ok THEN fileLock ELSE None
             /\ schemaLock' = IF ~s.ok /\ schemaLock = t THEN None ELSE schemaLock
    /\ UNCHANGED <<file, entry, held, lastTake, schema, ops>>

\* `file.lock().unwrap().seek(SeekFrom::Start(position))?;`: the seek, and
\* the MutexGuard dropped at the end of the statement.
SeekUnlock(t) ==
    /\ thread[t].pc = "seek"
    /\ \E fails \in BOOLEAN :
         LET s == Seek(entry[thread[t].e].data.position, fails)
         IN  /\ pos' = s.pos
             /\ thread' = [thread EXCEPT ![t] =
                   IF s.ok THEN [@ EXCEPT !.pc = "seeked"] ELSE IOFailed(t)]
             /\ schemaLock' = IF ~s.ok /\ schemaLock = t THEN None ELSE schemaLock
    /\ fileLock' = None
    /\ UNCHANGED <<file, entry, held, lastTake, schema, ops>>

\* `file.lock().unwrap().read_exact(&mut data)?;`, the MutexGuard dropped,
\* and the rest of the method up to its return.
ReadUnlock(t) ==
    /\ thread[t].pc = "read_exact"
    /\ \E fails \in BOOLEAN :
         LET e == thread[t].e
             op == thread[t].op
             d == entry[e].data
             r == ReadExact(d.size, fails)
             call == [thread[t] EXCEPT !.reads = @ + 1, !.arg = r.bytes]
             g == IF op = "get_data_and_keep_it"
                  THEN get_data_and_keep_it_on_disk(d, r.bytes)
                  ELSE get_data_on_disk(d, r.bytes)
             kept == r.ok /\ op = "get_data_and_keep_it"
         IN  /\ pos' = r.pos
             /\ entry' = [entry EXCEPT ![e].data =
                   IF op = "load_data" THEN load_data(d, r)
                   ELSE IF kept THEN g.data ELSE @]
             /\ held' = [held EXCEPT ![e] =
                   IF kept /\ g.status = "Ok" THEN StillOn(@, g) ELSE @]
             /\ lastTake' = [lastTake EXCEPT ![e] = IF kept THEN Taken(g) ELSE @]
             /\ thread' = [thread EXCEPT ![t] =
                   IF op \in {"decode", "decode_no_locks"}
                   THEN IF r.ok THEN AfterGetData(call, g)
                        ELSE AfterGetData(call, [status |-> "IOError", value |-> <<>>,
                                                 log |-> <<>>])
                   ELSE IF ~r.ok THEN Done(call, "IOError", <<>>)
                   ELSE IF op = "load_data" THEN Done(call, "Ok", <<>>)
                   ELSE Done([call EXCEPT !.log = g.log], g.status, g.value)]
    /\ fileLock' = None
    /\ schemaLock' = IF schemaLock = t THEN None ELSE schemaLock
    /\ UNCHANGED <<file, schema, ops>>

\* Both PackedFiles OnDisk or the first OnMemory, the first a DB table and
\* the second a text file; the SCHEMA loaded or not.
InitLocks ==
    /\ \E rep \in {"OnDisk", "OnMemory"} :
         InitPackFile([rep |-> rep, comp |-> FALSE, enc |-> None, wf |-> TRUE],
                      [rep |-> "OnDisk", comp |-> TRUE, enc |-> None, wf |-> TRUE],
                      << <<"db">>, <<"tbl">>, <<"data">> >>, << <<"script">>, <<"f", ".lua">> >>)
    /\ schema \in Schemas \cup {None}

NextLocks ==
    \/ \E t \in Threads, e \in Entries : CallDecode(t, e)
    \/ \E t \in Threads, e \in Entries : CallDecodeNoLocks(t, e)
    \/ \E t \in Threads, e \in Entries : CallOnDisk(t, e)
    \/ \E t \in Threads : LockSchema(t)
    \/ \E t \in Threads : LockFile(t)
    \/ \E t \in Threads : SeekUnlock(t)
    \/ \E t \in Threads : ReadUnlock(t)
    \/ \E t \in Threads : Return(t)

\* A Mutex that is free is given to a thread blocked on it, and a thread
\* that holds one runs.
FairLocks ==
    \A t \in Threads :
        /\ WF_vars(LockSchema(t))
        /\ WF_vars(LockFile(t))
        /\ WF_vars(SeekUnlock(t))
        /\ WF_vars(ReadUnlock(t))

SpecLocks == InitLocks /\ [][NextLocks]_vars /\ FairLocks

(***************************************************************************)
(* The specification of the ways to the data: PackedFiles whose stored     *)
(* bytes are well formed, and no call but load_data, get_data and          *)
(* get_data_and_keep_it, so that the file and the plain bytes of each      *)
(* PackedFile stay what they are.                                          *)
(***************************************************************************)
InitLoad ==
    /\ \E l1 \in {l \in Layouts : l.wf} :
         InitPackFile(l1, [rep |-> "OnDisk", comp |-> TRUE, enc |-> None, wf |-> TRUE],
                      << <<"db">>, <<"tbl">>, <<"data">> >>, << <<"script">>, <<"f", ".lua">> >>)
    /\ schema = None

NextLoad ==
    \/ \E t \in Threads, e \in Entries : LoadDataBegin(t, e)
    \/ \E t \in Threads : LoadDataRead(t)
    \/ \E t \in Threads, e \in Entries : GetDataBegin(t, e)
    \/ \E t \in Threads : GetDataRead(t)
    \/ \E t \in Threads, e \in Entries : KeepItBegin(t, e)
    \/ \E t \in Threads : KeepItRead(t)
    \/ \E t \in Threads : Return(t)

SpecLoad == InitLoad /\ [][NextLoad]_vars

(***************************************************************************)
(* The classifier's specification: get_packed_file_type is an associated   *)
(* function of PackedFileType, called with a path and no PackedFile.  The  *)
(* paths have no, one or two segments; a segment is a name, with or        *)
(* without extensions, "db", "db.loc" or the empty string.                 *)
(***************************************************************************)
FileNames ==
    { <<>>, <<"db">>, <<"f">>, <<".loc">>, <<"f", ".loc">>, <<"f", ".loc", ".bak">>,
      <<"f", ".png", ".loc">>, <<"f", ".rigid_model_v2">>, <<"f", ".lua">>,
      <<"f", ".xml", ".shader">>, <<"f", ".cindyscenemanager">>, <<"f", ".txt">>,
      <<"f", ".txt", ".png">>, <<"f", ".jpeg">>, <<"f", ".png">> }

Folders == { <<"db">>, <<"db", ".loc">>, <<"x">> }

ClassifyPaths ==
    {<<>>} \cup { <<n>> : n \in FileNames }
           \cup { <<f, n>> : f \in Folders, n \in FileNames }

PackedFileTypes == {"DB", "Loc", "RigidModel", "Text", "Image", "Unknown"}

GetPackedFileType(t) ==
    /\ CanBegin(t)
    /\ ops' = ops + 1
    /\ \E path \in ClassifyPaths :
         thread' = [thread EXCEPT ![t] =
            Done([Idle EXCEPT !.op = "get_packed_file_type", !.arg = path],
                 get_packed_file_type(path), <<>>)]
    /\ UNCHANGED <<file, fileLock, pos, entry, held, lastTake, schema, schemaLock>>

InitClassify ==
    /\ InitPackFile([rep |-> "OnDisk", comp |-> FALSE, enc |-> None, wf |-> TRUE],
                    [rep |-> "OnDisk", comp |-> FALSE, enc |-> None, wf |-> TRUE],
                    << <<"db">>, <<"tbl">>, <<"data">> >>, << <<"script">>, <<"f", ".lua">> >>)
    /\ schema = None

NextClassify ==
    \/ \E t \in Threads : GetPackedFileType(t)
    \/ \E t \in Threads : Return(t)

SpecClassify == InitClassify /\ [][NextClassify]_vars

(***************************************************************************)
(* The dispatcher's specification: the two PackedFiles have one path, any  *)
(* of Paths; the SCHEMA is loaded or not.                                  *)
(***************************************************************************)
InitDecode ==
    /\ \E l1 \in {l \in Layouts : l.enc # None <=> l.comp}, path \in Paths :
         InitPackFile(l1, [rep |-> "OnDisk", comp |-> FALSE, enc |-> None, wf |-> TRUE],
                      path, path)
    /\ schema \in Schemas \cup {None}

NextDecode ==
    \/ \E t \in Threads, e \in Entries : DecodeBegin(t, e)
    \/ \E t \in Threads, e \in Entries : DecodeNoLocksBegin(t, e)
    \/ \E t \in Threads : DecodeRead(t)
    \/ \E t \in Threads : Encode(t)
    \/ \E t \in Threads : Return(t)

SpecDecode == InitDecode /\ [][NextDecode]_vars

(***************************************************************************)
(* The properties.                                                         *)
(***************************************************************************)
Returned(t, op) == thread[t].pc = "done" /\ thread[t].op = op

Ran(log, transform) == \E i \in 1..Len(log) : log[i] = transform

NoRepeat(log) == \A i, j \in 1..Len(log) : log[i] = log[j] => i = j

\* The part of the file a PackedFileData::OnDisk stands for.
OwnBytes(d) == SubSeq(file, d.position + 1, d.position + d.size)

\* C1: a load_data that succeeds on an OnDisk PackedFile leaves it OnMemory
\* with exactly the bytes of the file at its own position..position+size,
\* whatever another thread does with the shared reader meanwhile.
C1_LoadsOwnBytes ==
    \A t \in Threads :
        (Returned(t, "load_data") /\ thread[t].status = "Ok"
            /\ thread[t].pre.data.tag = "OnDisk")
        => /\ entry[thread[t].e].data.tag = "OnMemory"
           /\ entry[thread[t].e].data.bytes = OwnBytes(thread[t].pre.data)

\* C2: a get_data_and_keep_it that succeeds leaves the PackedFile OnMemory
\* with is_compressed = false and is_encrypted = None; a second one returns
\* the bytes of the first and runs no transform, so that over the two calls
\* decrypt and decompress each ran at most once.
C2_KeepItOnce ==
    \A t \in Threads :
        (Returned(t, "get_data_and_keep_it") /\ thread[t].status = "Ok")
        => /\ entry[thread[t].e].data = OnMemory(thread[t].value, FALSE, None)
           /\ NoRepeat(thread[t].prev.log \o thread[t].log)
           /\ thread[t].prev.some
                => /\ thread[t].value = thread[t].prev.bytes
                   /\ thread[t].log = <<>>
                   /\ thread[t].reads = 0

\* C2's case: a second call after a first that decrypted and decompressed.
C2_Witness ==
    \E t \in Threads :
        /\ Returned(t, "get_data_and_keep_it")
        /\ thread[t].status = "Ok"
        /\ thread[t].prev.some
        /\ thread[t].prev.log = <<"decrypt", "decompress">>

\* C3: in every reachable state the flags of a PackedFile say exactly which
\* transforms are still on the bytes it holds: is_encrypted is set iff the
\* bytes have not been decrypted, is_compressed iff not decompressed.
C3_FlagsDescribeBytes ==
    \A e \in Entries :
        /\ (entry[e].data.is_encrypted # None) <=> held[e].enc
        /\ entry[e].data.is_compressed <=> held[e].comp

\* Decrypt, then decompress, as the flags say.
Plaintext(raw, d) ==
    LET a == IF d.is_encrypted # None THEN Decrypt(raw) ELSE raw
    IN  IF d.is_compressed THEN Decompress(a).bytes ELSE a

HasPlaintext(raw, d) ==
    d.is_compressed => WellFormed(IF d.is_encrypted # None THEN Decrypt(raw) ELSE raw)

\* C4: get_data returns the decrypted-then-decompressed form of the bytes
\* the PackedFile holds, or of those its read gave it, and leaves the
\* PackedFile as it was, whether it succeeds or fails: an OnDisk PackedFile
\* stays OnDisk, and each call that gets past its seek reads the file once.
C4_GetDataFrame ==
    \A t \in Threads :
        /\ (InCall(t) /\ thread[t].op = "get_data") => entry[thread[t].e] = thread[t].pre
        /\ Returned(t, "get_data")
             => LET d == thread[t].pre.data
                    raw == IF d.tag = "OnDisk" THEN thread[t].arg ELSE d.bytes
                IN  /\ thread[t].status # "IOError" =>
                          /\ thread[t].status = "Ok" <=> HasPlaintext(raw, d)
                          /\ thread[t].status = "Ok" => thread[t].value = Plaintext(raw, d)
                    /\ (d.tag = "OnDisk" /\ thread[t].status # "IOError") => thread[t].reads = 1
                    /\ d.tag = "OnMemory" => thread[t].reads = 0

\* C4's case: a get_data on an OnDisk PackedFile that decrypted and
\* decompressed what it read.
C4_Witness ==
    \E t \in Threads :
        /\ Returned(t, "get_data")
        /\ thread[t].status = "Ok"
        /\ thread[t].pre.data.tag = "OnDisk"
        /\ thread[t].log = <<"decrypt", "decompress">>
        /\ thread[t].value = PlainOf(thread[t].e)

\* C5: with the SCHEMA loaded, decode and decode_no_locks given that same
\* schema dispatch alike: on one PackedFile whose get_data gave both calls
\* the same result, they return the same value from the same decoder, or
\* the same error.
C5_SameDispatch ==
    \A t, u \in Threads :
        (/\ Returned(t, "decode")
         /\ Returned(u, "decode_no_locks")
         /\ thread[t].e = thread[u].e
         /\ thread[t].given # None
         /\ thread[u].given = thread[t].given
         /\ thread[t].got = thread[u].got)
        => /\ thread[t].status = thread[u].status
           /\ thread[t].decoded = thread[u].decoded

\* C6: encode returns what the value's own encoder returns for DB, Loc and
\* Text, and for every other variant returns the error EncodingNotSupported:
\* the call comes back, with no bytes.
C6_EncodeNotSupported ==
    \A t \in Threads :
        (thread[t].op = "encode" /\ thread[t].pc # "idle")
        => /\ thread[t].pc = "done"
           /\ IF thread[t].input.variant \in {"DB", "Loc", "Text"}
              THEN thread[t].status = "Ok" /\ thread[t].value = thread[t].input.bytes
              ELSE thread[t].status = "EncodingNotSupported" /\ thread[t].value = <<>>

\* C7: a load_data that fails with an IOError, at its seek or at its
\* read_exact, leaves the PackedFile as it was: OnDisk, with the position,
\* size and flags it had.
C7_LoadFailureKeepsOnDisk ==
    \A t \in Threads :
        (Returned(t, "load_data") /\ thread[t].status = "IOError")
        => /\ thread[t].pre.data.tag = "OnDisk"
           /\ entry[thread[t].e] = thread[t].pre

\* C7's case: one load_data failed at its read_exact, another at its seek.
C7_Witness ==
    \E t, u \in Threads :
        /\ Returned(t, "load_data") /\ thread[t].status = "IOError" /\ thread[t].reads = 1
        /\ Returned(u, "load_data") /\ thread[u].status = "IOError" /\ thread[u].reads = 0

\* C8: load_data on an OnMemory PackedFile returns Ok, reads nothing and
\* changes nothing, so a second load_data leaves what the first left; a
\* load_data that succeeds on an OnDisk PackedFile stores the bytes it read
\* as they are, under the is_compressed and is_encrypted the PackedFile had.
C8_LoadIdempotent ==
    \A t \in Threads :
        Returned(t, "load_data")
        => LET d == thread[t].pre.data
           IN  /\ thread[t].log = <<>>
               /\ d.tag = "OnMemory"
                    => /\ thread[t].status = "Ok"
                       /\ thread[t].reads = 0
                       /\ entry[thread[t].e] = thread[t].pre
               /\ (d.tag = "OnDisk" /\ thread[t].status = "Ok")
                    => entry[thread[t].e] =
                          [thread[t].pre EXCEPT !.data =
                              OnMemory(thread[t].arg, d.is_compressed, d.is_encrypted)]

\* C8's case: one load_data found its PackedFile OnMemory, still compressed
\* and encrypted; another loaded a compressed PackedFile from the file.
C8_Witness ==
    \E t, u \in Threads :
        /\ Returned(t, "load_data")
        /\ thread[t].pre.data.tag = "OnMemory"
        /\ thread[t].pre.data.is_compressed
        /\ thread[t].pre.data.is_encrypted # None
        /\ Returned(u, "load_data")
        /\ thread[u].status = "Ok"
        /\ thread[u].pre.data.tag = "OnDisk"
        /\ thread[u].pre.data.is_compressed

\* C9: once a PackedFile is OnMemory, no step of any method makes it OnDisk
\* again.
C9_OnMemoryIsTerminal ==
    [][\A e \in Entries :
          entry[e].data.tag = "OnMemory" => entry'[e].data.tag = "OnMemory"]_vars

\* C9's case: set_data has replaced the data of a PackedFile that was
\* already OnMemory.
C9_Witness ==
    \E t \in Threads :
        /\ Returned(t, "set_data")
        /\ thread[t].pre.data.tag = "OnMemory"
        /\ entry[thread[t].e].data.tag = "OnMemory"

\* C10: get_data and get_data_and_keep_it, on OnMemory and OnDisk data alike,
\* run decrypt only if is_encrypted is set and decompress only if
\* is_compressed is set, each at most once in a call, and when the data is
\* encrypted decompress runs only after decrypt has run.
C10_DecryptThenDecompress ==
    \A t \in Threads :
        (thread[t].pc = "done" /\ thread[t].op \in {"get_data", "get_data_and_keep_it"})
        => LET d == thread[t].pre.data
               log == thread[t].log
           IN  /\ \A i \in 1..Len(log) : log[i] \in {"decrypt", "decompress"}
               /\ NoRepeat(log)
               /\ Ran(log, "decrypt") => d.is_encrypted # None
               /\ Ran(log, "decompress") => d.is_compressed
               /\ \A i \in 1..Len(log) :
                    (log[i] = "decompress" /\ d.is_encrypted # None)
                    => \E j \in 1..(i - 1) : log[j] = "decrypt"
               /\ thread[t].status \in {"Ok", "DecompressionFailed"}
                    => /\ d.is_encrypted # None => Ran(log, "decrypt")
                       /\ d.is_compressed => Ran(log, "decompress")

\* C10's case: a get_data_and_keep_it on OnDisk data that decrypted and then
\* decompressed, and a get_data that only had to decompress.
C10_Witness ==
    \E t, u \in Threads :
        /\ Returned(t, "get_data_and_keep_it")
        /\ thread[t].pre.data.tag = "OnDisk"
        /\ thread[t].log = <<"decrypt", "decompress">>
        /\ thread[t].status = "Ok"
        /\ Returned(u, "get_data")
        /\ thread[u].log = <<"decompress">>
\* C11: with no schema loaded, decode on a PackedFile whose path is of type
\* DB or Loc returns Ok(Unknown) without getting the data, whatever the data
\* is and wherever it is, also for the path ["db"] and for data that would
\* not decompress.
C11_NoSchemaIsUnknown ==
    \A t \in Threads :
        (/\ Returned(t, "decode")
         /\ thread[t].given = None
         /\ get_packed_file_type(thread[t].pre.path) \in {"DB", "Loc"})
        => /\ thread[t].status = "Ok"
           /\ thread[t].decoded = Unknown
           /\ thread[t].got = NoGot
           /\ thread[t].reads = 0

\* C11's case: decode of the path ["db"] over data that does not decompress,
\* and decode of a Loc path, both with no schema.
C11_Witness ==
    \E t, u \in Threads :
        /\ Returned(t, "decode")
        /\ thread[t].given = None
        /\ thread[t].pre.path = << <<"db">> >>
        /\ thread[t].pre.data.is_compressed
        /\ ~HasPlaintext(thread[t].pre.data.bytes, thread[t].pre.data)
        /\ thread[t].pre.data.tag = "OnMemory"
        /\ Returned(u, "decode")
        /\ thread[u].pre.data.tag = "OnDisk"
        /\ thread[t].decoded = Unknown

\* C12: with a schema, decode and decode_no_locks on a PackedFile whose path
\* is of type DB and has no second segment return DBTableIsNotADBTable, and
\* do so before getting the data or calling DB::read.
C12_NoTableName ==
    \A t \in Threads :
        (/\ thread[t].pc = "done"
         /\ thread[t].op \in {"decode", "decode_no_locks"}
         /\ thread[t].given # None
         /\ get_packed_file_type(thread[t].pre.path) = "DB"
         /\ Len(thread[t].pre.path) < 2)
        => /\ thread[t].status = "DBTableIsNotADBTable"
           /\ thread[t].decoded = NoValue
           /\ thread[t].got = NoGot
           /\ thread[t].reads = 0

\* C12's case: decode and decode_no_locks have both refused the path ["db"].
C12_Witness ==
    \E t, u \in Threads :
        /\ Returned(t, "decode")
        /\ Returned(u, "decode_no_locks")
        /\ thread[t].pre.path = << <<"db">> >>
        /\ thread[u].pre.path = << <<"db">> >>
        /\ thread[t].given # None
        /\ thread[t].status = "DBTableIsNotADBTable"
        /\ thread[u].status = "DBTableIsNotADBTable"
\* C13: get_data_and_info_from_memory on OnDisk data returns
\* PackedFileDataIsNotInMemory, on OnMemory data returns Ok; in both cases the
\* PackedFile is what it was before the call and the file has not been read.
C13_FromMemoryOnly ==
    \A t \in Threads :
        Returned(t, "get_data_and_info_from_memory")
        => /\ entry[thread[t].e] = thread[t].pre
           /\ thread[t].reads = 0
           /\ thread[t].pre.data.tag = "OnDisk"
              => thread[t].status = "PackedFileDataIsNotInMemory"
           /\ thread[t].pre.data.tag = "OnMemory" => thread[t].status = "Ok"

\* C13's case: the call has been refused on OnDisk data and has succeeded on
\* OnMemory data that is still compressed.
C13_Witness ==
    \E t, u \in Threads :
        /\ Returned(t, "get_data_and_info_from_memory")
        /\ Returned(u, "get_data_and_info_from_memory")
        /\ thread[t].pre.data.tag = "OnDisk"
        /\ thread[t].status = "PackedFileDataIsNotInMemory"
        /\ thread[u].pre.data.tag = "OnMemory"
        /\ thread[u].pre.data.is_compressed
        /\ thread[u].status = "Ok"

\* C14: set_path with an empty path returns EmptyInput and leaves the
\* PackedFile as it was; with a non-empty path it returns Ok and changes the
\* path to the one given and nothing else. No PackedFile with a non-empty
\* path ever gets an empty one.
C14_PathNeverEmpty ==
    /\ \A e \in Entries : entry[e].path # <<>>
    /\ \A t \in Threads :
         Returned(t, "set_path")
         => IF thread[t].arg = <<>>
            THEN /\ thread[t].status = "EmptyInput"
                 /\ entry[thread[t].e] = thread[t].pre
            ELSE /\ thread[t].status = "Ok"
                 /\ entry[thread[t].e] = [thread[t].pre EXCEPT !.path = thread[t].arg]

\* C14's case: an empty path has been refused after a non-empty one was set.
C14_Witness ==
    \E t \in Threads :
        /\ Returned(t, "set_path")
        /\ thread[t].arg = <<>>
        /\ thread[t].status = "EmptyInput"
        /\ thread[t].pre.path \in NewPaths

\* C15: set_data leaves the data OnMemory with the bytes given, not
\* compressed and not encrypted, wherever the data was before; get_data on it
\* returns the bytes given, with no decryption and no decompression.
C15_SetDataIsPlain ==
    \A t \in Threads :
        /\ Returned(t, "set_data")
           => /\ entry[thread[t].e].data = OnMemory(thread[t].arg, FALSE, None)
              /\ held[thread[t].e] = [enc |-> FALSE, comp |-> FALSE]
        /\ (/\ Returned(t, "get_data")
            /\ lastTake[thread[t].e] = NoTake
            /\ thread[t].pre.data.tag = "OnMemory"
            /\ thread[t].pre.data.bytes \in NewData)
           => /\ thread[t].status = "Ok"
              /\ thread[t].value = thread[t].pre.data.bytes
              /\ thread[t].log = <<>>

\* C15's case: get_data has returned bytes that set_data put in place of
\* OnDisk data, bytes which read as a compressed stream.
C15_Witness ==
    \E t \in Threads :
        /\ Returned(t, "get_data")
        /\ thread[t].e = "e2"
        /\ thread[t].pre.data = OnMemory(<<1, 6>>, FALSE, None)
        /\ WellFormed(thread[t].pre.data.bytes)
        /\ thread[t].value = <<1, 6>>
\* C16: get_packed_file_type returns a type for every path, the same type for
\* the same path, and resolves it in this order, the first match winning: an
\* empty path is Unknown; a first segment "db" is DB whatever the last
\* segment ends with; else a last segment ending in .loc is Loc; else in
\* .rigid_model_v2 RigidModel; else in a text extension Text; else in an
\* image extension Image; else Unknown.
C16_ResolutionOrder ==
    \A t \in Threads :
        Returned(t, "get_packed_file_type")
        => LET path == thread[t].arg
               type == thread[t].status
               name == path[Len(path)]
               isDB == path[1] = <<"db">>
               isLoc == EndsWith(name, <<".loc">>)
               isRigid == EndsWith(name, <<".rigid_model_v2">>)
               isText == \E x \in TextExtensions : EndsWith(name, x)
               isImage == \E x \in ImageExtensions : EndsWith(name, x)
           IN  /\ type \in PackedFileTypes
               /\ \A u \in Threads :
                    (Returned(u, "get_packed_file_type") /\ thread[u].arg = path)
                    => thread[u].status = type
               /\ IF path = <<>> THEN type = "Unknown"
                  ELSE /\ isDB => type = "DB"
                       /\ (~isDB /\ isLoc) => type = "Loc"
                       /\ (~isDB /\ ~isLoc /\ isRigid) => type = "RigidModel"
                       /\ (~isDB /\ ~isLoc /\ ~isRigid /\ isText) => type = "Text"
                       /\ (~isDB /\ ~isLoc /\ ~isRigid /\ ~isText /\ isImage)
                          => type = "Image"
                       /\ (~isDB /\ ~isLoc /\ ~isRigid /\ ~isText /\ ~isImage)
                          => type = "Unknown"

\* C16's case: a path in "db" whose name ends in .loc has come out as DB, and
\* the one-segment path ["db"] has too.
C16_Witness ==
    \E t, u \in Threads :
        /\ Returned(t, "get_packed_file_type")
        /\ Returned(u, "get_packed_file_type")
        /\ thread[t].arg = << <<"db">>, <<"f", ".loc">> >>
        /\ thread[t].status = "DB"
        /\ thread[u].arg = << <<"db">> >>
        /\ thread[u].status = "DB"
\* C17: in load_data, get_data and get_data_and_keep_it the seek and the
\* read_exact are one hold of the file's Mutex: while a thread is between its
\* seek and its read no other thread is, and the file's position is the one
\* the thread seeked to.
C17_SeekAndReadInOneHold ==
    \A t \in Threads :
        thread[t].pc = "seeked"
        => /\ pos = thread[t].pre.data.position
           /\ \A u \in Threads \ {t} : thread[u].pc # "seeked"
\* A step in which thread t finishes a call of one of ops.
Finishes(t, operations) ==
    /\ thread[t].pc # "done"
    /\ thread'[t].pc = "done"
    /\ thread'[t].op \in operations

\* C18 as stated: the only calls that turn OnDisk data into OnMemory data are
\* load_data and get_data_and_keep_it; every other call leaves OnDisk data
\* OnDisk.
C18_OnlyLoadAndKeepIt ==
    [][\A e \in Entries :
          (entry[e].data.tag = "OnDisk" /\ entry'[e].data.tag = "OnMemory")
          => \E t \in Threads :
                /\ Finishes(t, {"load_data", "get_data_and_keep_it"})
                /\ thread'[t].e = e]_vars

\* C18, amended: the only calls that turn OnDisk data into OnMemory data are
\* load_data, get_data_and_keep_it and set_data; every other call leaves
\* OnDisk data OnDisk.
C18_OnlyLoadKeepItAndSetData ==
    [][\A e \in Entries :
          (entry[e].data.tag = "OnDisk" /\ entry'[e].data.tag = "OnMemory")
          => \E t \in Threads :
                /\ Finishes(t, {"load_data", "get_data_and_keep_it", "set_data"})
                /\ thread'[t].e = e]_vars

\* C18's case: set_data has turned OnDisk data into OnMemory data, and a
\* get_data that read the file has left the other PackedFile OnDisk.
C18_Witness ==
    \E t, u \in Threads :
        /\ Returned(t, "set_data")
        /\ thread[t].pre.data.tag = "OnDisk"
        /\ entry[thread[t].e].data.tag = "OnMemory"
        /\ Returned(u, "get_data")
        /\ thread[u].reads = 1
        /\ thread[u].status = "Ok"
        /\ entry[thread[u].e].data.tag = "OnDisk"

\* What a PackedFile is to be saved as, and where and when it came from.
Intent(p) ==
    <<p.path, p.packfile_name, p.timestamp, p.should_be_compressed, p.should_be_encrypted>>

\* C19: load_data, get_data, get_data_and_keep_it and set_data, succeeding or
\* failing, leave should_be_compressed, should_be_encrypted, path,
\* packfile_name and timestamp of every PackedFile as they were; and a step
\* that changes one of these leaves the data, its bytes and its two flags,
\* as they were.
C19_IntentApartFromData ==
    [][/\ \A t \in Threads :
            (thread'[t] # thread[t]
             /\ thread'[t].op \in {"load_data", "get_data", "get_data_and_keep_it", "set_data"})
            => \A e \in Entries : Intent(entry'[e]) = Intent(entry[e])
       /\ \A e \in Entries :
            Intent(entry'[e]) # Intent(entry[e])
            => /\ entry'[e].data = entry[e].data
               /\ held'[e] = held[e]
               /\ pos' = pos]_vars

\* C19's case: get_data_and_keep_it has decompressed the data of a
\* PackedFile that is still to be compressed when saved, and the other
\* PackedFile is no longer to be compressed while its data still is.
C19_Witness ==
    \E t \in Threads :
        /\ Returned(t, "get_data_and_keep_it")
        /\ thread[t].status = "Ok"
        /\ thread[t].pre.data.is_compressed
        /\ ~entry[thread[t].e].data.is_compressed
        /\ entry[thread[t].e].should_be_compressed
        /\ \E e \in Entries \ {thread[t].e} :
             /\ ~entry[e].should_be_compressed
             /\ entry[e].data.is_compressed
\* C20: over a file that does not change, a get_data or get_data_and_keep_it
\* that succeeds returns the plain bytes of its PackedFile, whether the data
\* is OnDisk or OnMemory, and whether or not load_data or
\* get_data_and_keep_it came before it: all the ways to the data give the
\* same bytes.
C20_SameBytesEveryWay ==
    \A t \in Threads :
        (/\ thread[t].pc = "done"
         /\ thread[t].op \in {"get_data", "get_data_and_keep_it"}
         /\ thread[t].status = "Ok")
        => thread[t].value = PlainOf(thread[t].e)
\* C21: threads running decode, decode_no_locks, get_data, load_data and
\* get_data_and_keep_it on PackedFiles of one file never block for ever: a
\* thread blocked in SCHEMA.lock() does not hold the file's Mutex, no thread
\* is blocked on a Mutex it holds itself, and every call that has started
\* returns, with Ok or with an error.
C21_NoDeadlock ==
    /\ [](\A t \in Threads :
            /\ thread[t].pc = "SCHEMA.lock" => (fileLock # t /\ schemaLock # t)
            /\ thread[t].pc \in {"file.lock", "seeked"} => fileLock # t)
    /\ \A t \in Threads :
         (thread[t].pc \in {"SCHEMA.lock", "file.lock", "seek", "seeked", "read_exact"})
         ~> (thread[t].pc = "done" /\ thread[t].status # "none")

\* C21's case: a thread in decode holds SCHEMA's Mutex and the file's, and
\* the other thread is blocked in SCHEMA.lock().
C21_Witness ==
    \E t, u \in Threads :
        /\ schemaLock = t
        /\ fileLock = t
        /\ thread[t].op = "decode"
        /\ thread[u].pc = "SCHEMA.lock"
\* C22: on a PackedFile whose path is of type RigidModel or Unknown (the
\* empty path too) decode and decode_no_locks return Ok(Unknown) without
\* getting the data: no seek, no read, no decryption, no decompression,
\* whatever the data is. On a path of type Image or Text they get the data
\* and hand it to a decoder that takes no schema, with the SCHEMA loaded or
\* not, and fail only if get_data or the decoder fails.
C22_UnknownWithoutData ==
    \A t \in Threads :
        (thread[t].pc = "done" /\ thread[t].op \in {"decode", "decode_no_locks"})
        => LET type == get_packed_file_type(thread[t].pre.path)
           IN  /\ type \in {"RigidModel", "Unknown"}
                  => /\ thread[t].status = "Ok"
                     /\ thread[t].decoded = Unknown
                     /\ thread[t].got = NoGot
                     /\ thread[t].reads = 0
                     /\ thread[t].log = <<>>
               /\ type \in {"Image", "Text"}
                  => /\ thread[t].plan.act = "read"
                     /\ thread[t].plan.schema = None
                     /\ ~thread[t].plan.locks
                     /\ thread[t].got # NoGot
                     /\ thread[t].status = "Ok"
                        <=> (thread[t].got.status = "Ok" /\ Decodable(thread[t].got.value))
                     /\ thread[t].status = "Ok"
                        => /\ thread[t].decoded.variant \in {"Image", "Text"}
                           /\ thread[t].decoded.bytes = thread[t].got.value

\* C22's case: decode of the empty path over OnMemory data that does not
\* decompress, and decode_no_locks of it over OnDisk data, have both
\* returned Unknown.
C22_Witness ==
    \E t, u \in Threads :
        /\ Returned(t, "decode")
        /\ thread[t].pre.path = <<>>
        /\ thread[t].pre.data.tag = "OnMemory"
        /\ thread[t].pre.data.is_compressed
        /\ ~HasPlaintext(thread[t].pre.data.bytes, thread[t].pre.data)
        /\ thread[t].decoded = Unknown
        /\ Returned(u, "decode_no_locks")
        /\ thread[u].pre.data.tag = "OnDisk"
        /\ thread[u].decoded = Unknown
====
